---- MODULE Spec2Model ----
(***************************************************************************)
(* Model of the bulk image runner (src/main.py): the batch registry, the   *)
(* submit handler, the bounded-concurrency scheduler and its job tasks,    *)
(* the status poll, and the two-phase PNG rename.                          *)
(*                                                                         *)
(* Tasks run on one asyncio event loop.  A task step of the model is the   *)
(* code between two awaits; every await (lock, semaphore, network call,    *)
(* upload read) is taken as a point where another task may run.            *)
(***************************************************************************)
EXTENDS Integers, Sequences, FiniteSets, TLC

\* ------------------------------------------------------------------ bounds
MaxBatches == 2      \* batch ids (uuid4 draws) the submit handler may use
MaxJobs == 4         \* jobs in the registry, over all batches
MaxRunJobs == 3      \* the same, where the jobs also run
MaxFairBatches == 1  \* batches submitted where termination is checked
MaxFiles == 3        \* .png files in the directory to rename (at most 9)
MaxTokens == 6       \* uuid4 draws for temporary names
MaxImages == 2       \* uploads in one submission
MaxLines == 2        \* lines of prompts_text in one submission

\* ------------------------------------------------------- program constants
MinConcurrency == 1
MaxConcurrency == 10

None == "None"

QUALITIES == {"auto", "low", "medium", "high"}
OUTPUT_FORMATS == {"png", "webp", "jpeg"}
JOB_STATUSES == {"queued", "submitting", "processing", "completed", "failed"}

VARIABLES
    OPENAI_API_KEY,   \* "" when the credential is not configured
    batches,          \* the registry: batch id -> BatchRecord
    uploads,          \* UPLOADS_DIR: batch id -> indexes of the image files written
    outputs,          \* OUTPUTS_DIR: path of an output file -> the bytes in it
    nextBatch,        \* uuid4 draws made for batch ids
    nextJob,          \* uuid4 draws made for job ids
    procTask,         \* batch id -> position of its _process_batch task
    jobTask,          \* job id -> position of its _run_job task
    jobLocal,         \* job id -> what its task holds after _create_image_edit
    jobLog,           \* job id -> history: requests sent, how the call and the write ended
    sem,              \* batch id -> free permits of its asyncio.Semaphore
    resp,             \* the last response of a request handler
    lockedIO,         \* history: <<operation, call>> for the I/O done holding state_lock
    unlockedWrites,   \* history: <<operation, field>> for the registry writes done without it
    dir,              \* rename: the target directory, name -> entry
    renTask,          \* rename: position of the rename_pngs handler
    png_files,        \* rename: the sorted candidate names
    temp_paths,       \* rename: the temporary names of phase 1
    renamed,          \* rename: the old_name/new_name pairs of phase 2
    validated_base,   \* rename: the base name in use
    tokens,           \* rename: uuid4 draws made for temporary names
    before            \* rename: history, the directory when the handler was called

batchVars == <<OPENAI_API_KEY, batches, uploads, outputs, nextBatch, nextJob,
               procTask, jobTask, jobLocal, jobLog, sem, resp>>
renameVars == <<dir, renTask, png_files, temp_paths, renamed, validated_base, tokens,
                before>>
auditVars == <<lockedIO, unlockedWrites>>
vars == <<batchVars, renameVars, auditVars>>

\* ------------------------------------------------------------ data model
Max(a, b) == IF a >= b THEN a ELSE b

\* JobRecord(...) with the dataclass defaults.
JobRecord(id, batch_id, sequence, image_filename, image_path, prompt) ==
    [id |-> id, batch_id |-> batch_id, sequence |-> sequence,
     image_filename |-> image_filename, image_path |-> image_path,
     prompt |-> prompt, status |-> "queued", api_status |-> None,
     revised_prompt |-> None, output_path |-> None, error |-> None]

\* BatchRecord(...) with the dataclass default status.
BatchRecord(id, prompts, image_filenames, jobs, quality, output_format, concurrency) ==
    [id |-> id, prompts |-> prompts, image_filenames |-> image_filenames,
     jobs |-> jobs, status |-> "queued", quality |-> quality,
     output_format |-> output_format, concurrency |-> concurrency]

\* BatchRecord.counts: one pass over the jobs, adding 1 under the job's status.
RECURSIVE CountLoop(_, _, _)
CountLoop(jobs, k, counts) ==
    IF k > Len(jobs) THEN counts
    ELSE CountLoop(jobs, k + 1,
                   [counts EXCEPT ![jobs[k].status] = counts[jobs[k].status] + 1])

\* Mutant: the counting pass starts at the second job.
countsSkipFirst(batch) ==
    CountLoop(batch.jobs, 2,
              [s \in JOB_STATUSES \cup {"total"} |->
                  IF s = "total" THEN Len(batch.jobs) ELSE 0])

counts(batch) ==
    CountLoop(batch.jobs, 1,
              [s \in JOB_STATUSES \cup {"total"} |->
                  IF s = "total" THEN Len(batch.jobs) ELSE 0])

\* BatchRecord.recalculate_status: the value it stores in batch.status.
recalculate_status(batch) ==
    LET c == counts(batch) IN
    IF c["total"] = 0 THEN "queued"
    ELSE IF c["failed"] # 0 /\ c["completed"] + c["failed"] = c["total"]
         THEN "completed_with_errors"
    ELSE IF c["completed"] = c["total"] THEN "completed"
    ELSE IF c["submitting"] # 0 \/ c["processing"] # 0 THEN "running"
    ELSE IF c["queued"] = c["total"] THEN "queued"
    ELSE "running"

\* ------------------------------------------------------------ submission
\* str.strip of a prompt line, over the lines the model submits.
Strip(line) ==
    CASE line = "" -> ""
      [] line = "  " -> ""
      [] line = "x" -> "x"
      [] line = " y " -> "y"

RECURSIVE SanitizeLoop(_, _, _)
SanitizeLoop(lines, k, acc) ==
    IF k > Len(lines) THEN acc
    ELSE SanitizeLoop(lines, k + 1,
                      IF Strip(lines[k]) # "" THEN Append(acc, Strip(lines[k])) ELSE acc)

\* _sanitize_prompts over prompts_text.splitlines()
sanitize_prompts(lines) == SanitizeLoop(lines, 1, <<>>)

\* Path(upload.filename).name over the filenames the model uploads.
PathName(filename) ==
    CASE filename = "a.jpg" -> "a.jpg"
      [] filename = "d/b.jpg" -> "b.jpg"
      [] filename = "c.jpg" -> "c.jpg"

\* f"{idx:03d}_{safe_name}" under the batch's upload directory.
UploadPath(batch_id, idx, safe_name) ==
    "uploads/" \o ToString(batch_id) \o "/00" \o ToString(idx) \o "_" \o safe_name

\* The image loop of create_batch: saves uploads in order and stops at the
\* first one without a filename or without content.  Returns the images saved
\* so far and the index of the rejected upload (0 when none).
RECURSIVE SaveLoop(_, _, _, _)
SaveLoop(batch_id, images, idx, saved) ==
    IF idx > Len(images) THEN [saved |-> saved, bad |-> 0, detail |-> ""]
    ELSE IF images[idx].filename = ""
         THEN [saved |-> saved, bad |-> idx, detail |-> "missing a filename"]
    ELSE IF images[idx].content = ""
         THEN [saved |-> saved, bad |-> idx, detail |-> "empty"]
    ELSE SaveLoop(batch_id, images, idx + 1,
                  Append(saved, <<PathName(images[idx].filename),
                                  UploadPath(batch_id, idx, PathName(images[idx].filename))>>))

\* Mutant: the loops are nested the other way round (prompt-major).
RECURSIVE JobLoopPromptMajor(_, _, _, _, _, _, _, _)
JobLoopPromptMajor(batch_id, saved_images, prompts, i, p, seq, firstId, jobs) ==
    IF p > Len(prompts) THEN jobs
    ELSE IF i > Len(saved_images)
         THEN JobLoopPromptMajor(batch_id, saved_images, prompts, 1, p + 1, seq, firstId, jobs)
    ELSE JobLoopPromptMajor(batch_id, saved_images, prompts, i + 1, p, seq + 1, firstId,
                 Append(jobs, JobRecord(firstId + Len(jobs), batch_id, seq,
                                        saved_images[i][1], saved_images[i][2], prompts[p])))

\* The job loop of create_batch: for each saved image, for each prompt, one
\* JobRecord with the running sequence number seq and a fresh uuid4 job id.
RECURSIVE JobLoop(_, _, _, _, _, _, _, _)
JobLoop(batch_id, saved_images, prompts, i, p, seq, firstId, jobs) ==
    IF i > Len(saved_images) THEN jobs
    ELSE IF p > Len(prompts)
         THEN JobLoop(batch_id, saved_images, prompts, i + 1, 1, seq, firstId, jobs)
    ELSE JobLoop(batch_id, saved_images, prompts, i, p + 1, seq + 1, firstId,
                 Append(jobs, JobRecord(firstId + Len(jobs), batch_id, seq,
                                        saved_images[i][1], saved_images[i][2], prompts[p])))

Response(op, status, detail) == [op |-> op, status |-> status, detail |-> detail]

\* raise HTTPException(...) before anything was created.
RejectSubmission(status, detail) ==
    /\ resp' = Response("create_batch", status, detail)
    /\ UNCHANGED <<OPENAI_API_KEY, batches, uploads, outputs, nextBatch, nextJob,
                   procTask, jobTask, jobLocal, jobLog, sem>>
    /\ UNCHANGED auditVars

\* JobRecord.to_dict, line 48: the file-system calls it makes.  Python's
\* "and" does not evaluate Path(...).exists() when output_path is None.
JobToDictIO(job) == IF job.output_path # None THEN {"Path.exists"} ELSE {}

\* BatchRecord.to_dict, line 125: job.to_dict() for each job.
BatchToDictIO(batch) == UNION {JobToDictIO(batch.jobs[k]) : k \in 1..Len(batch.jobs)}

\* BatchRecord.to_dict, line 112: recalculate_status() assigns self.status.
BatchToDictWrites == {"batch.status"}

\* Lines 330-378 of create_batch: draw the batch id, make the upload
\* directory, save the images, build the jobs, register the batch under the
\* lock, start its _process_batch task and, the lock released, build the
\* response with batch.to_dict().
StoreSubmission(prompts, images, quality, output_format, concurrency) ==
    LET batch_id == nextBatch + 1
        r == SaveLoop(batch_id, images, 1, <<>>)
        jobs == JobLoop(batch_id, r.saved, prompts, 1, 1, 1, nextJob + 1, <<>>)
        batch == BatchRecord(batch_id, prompts,
                             [k \in 1..Len(r.saved) |-> r.saved[k][1]],
                             jobs, quality, output_format, concurrency)
    IN  /\ nextBatch' = batch_id
        /\ uploads' = uploads @@ (batch_id :> {r.saved[k][2] : k \in 1..Len(r.saved)})
        /\ UNCHANGED lockedIO
        /\ IF r.bad # 0
           THEN /\ resp' = Response("create_batch", 400, r.detail)
                /\ UNCHANGED <<OPENAI_API_KEY, batches, outputs, nextJob,
                               procTask, jobTask, jobLocal, jobLog, sem>>
                /\ UNCHANGED unlockedWrites
           ELSE /\ nextJob' = nextJob + Len(jobs)
                /\ unlockedWrites' = unlockedWrites \cup
                      {<<"create_batch", f>> : f \in BatchToDictWrites}
                /\ batches' = batches @@
                      (batch_id :> [batch EXCEPT !.status = recalculate_status(batch)])
                /\ procTask' = procTask @@ (batch_id :> "start")
                /\ resp' = Response("create_batch", 200, "created")
                /\ UNCHANGED <<OPENAI_API_KEY, outputs, jobTask, jobLocal, jobLog, sem>>

\* Mutant: the range check of concurrency is missing.
create_batchUnchecked(prompts_text, images, quality, output_format, concurrency) ==
    LET prompts == sanitize_prompts(prompts_text) IN
    /\ UNCHANGED renameVars
    /\ IF prompts = <<>> THEN RejectSubmission(400, "Provide at least one prompt")
       ELSE IF images = <<>> THEN RejectSubmission(400, "Upload at least one image")
       ELSE IF quality \notin QUALITIES
            THEN RejectSubmission(400, "quality must be auto, low, medium, or high")
       ELSE IF output_format \notin OUTPUT_FORMATS
            THEN RejectSubmission(400, "output_format must be png, webp, or jpeg")
       ELSE IF OPENAI_API_KEY = ""
            THEN RejectSubmission(500, "OPENAI_API_KEY is not configured")
       ELSE StoreSubmission(prompts, images, quality, output_format, concurrency)

\* POST /api/batches
create_batch(prompts_text, images, quality, output_format, concurrency) ==
    LET prompts == sanitize_prompts(prompts_text) IN
    /\ UNCHANGED renameVars
    /\ IF prompts = <<>> THEN RejectSubmission(400, "Provide at least one prompt")
       ELSE IF images = <<>> THEN RejectSubmission(400, "Upload at least one image")
       ELSE IF concurrency < MinConcurrency \/ concurrency > MaxConcurrency
            THEN RejectSubmission(400, "concurrency must be between 1 and 10")
       ELSE IF quality \notin QUALITIES
            THEN RejectSubmission(400, "quality must be auto, low, medium, or high")
       ELSE IF output_format \notin OUTPUT_FORMATS
            THEN RejectSubmission(400, "output_format must be png, webp, or jpeg")
       ELSE IF OPENAI_API_KEY = ""
            THEN RejectSubmission(500, "OPENAI_API_KEY is not configured")
       ELSE StoreSubmission(prompts, images, quality, output_format, concurrency)

\* --------------------------------------------------------------- registry
\* The job of batch.jobs with the given id: its index, 0 when there is none.
JobIndex(batch, job_id) ==
    IF \E k \in 1..Len(batch.jobs) : batch.jobs[k].id = job_id
    THEN CHOOSE k \in 1..Len(batch.jobs) :
            /\ batch.jobs[k].id = job_id
            /\ \A m \in 1..(k - 1) : batch.jobs[m].id # job_id
    ELSE 0

\* setattr(job, key, value) for each of the changes.
SetFields(job, changes) ==
    [f \in DOMAIN job |-> IF f \in DOMAIN changes THEN changes[f] ELSE job[f]]

\* _update_job: the registry after the call.
update_job(reg, batch_id, job_id, changes) ==
    IF batch_id \notin DOMAIN reg THEN reg
    ELSE LET batch == reg[batch_id]
             k == JobIndex(batch, job_id)
         IN  IF k = 0 THEN reg
             ELSE LET changed == [batch EXCEPT !.jobs[k] = SetFields(batch.jobs[k], changes)]
                  IN  [reg EXCEPT ![batch_id] =
                          [changed EXCEPT !.status = recalculate_status(changed)]]

\* GET /api/batches/{batch_id}: batch.to_dict() is called inside "async with
\* state_lock"; it stores the recomputed status and calls job.to_dict().
get_batch(batch_id) ==
    /\ UNCHANGED renameVars
    /\ UNCHANGED <<OPENAI_API_KEY, uploads, outputs, nextBatch, nextJob,
                   procTask, jobTask, jobLocal, jobLog, sem>>
    /\ UNCHANGED unlockedWrites
    /\ IF batch_id \notin DOMAIN batches
       THEN /\ resp' = Response("get_batch", 404, "Batch not found.")
            /\ UNCHANGED <<batches, lockedIO>>
       ELSE /\ batches' = [batches EXCEPT
                             ![batch_id].status = recalculate_status(batches[batch_id])]
            /\ lockedIO' = lockedIO \cup
                  {<<"get_batch", io>> : io \in BatchToDictIO(batches[batch_id])}
            /\ resp' = Response("get_batch", 200, "batch")

\* GET /api/batches/{batch_id}/jobs/{job_id}/download: the lookups are made
\* under the lock, output_path.exists() after it is released; a 200 serves
\* the bytes of the file.
download_job_output(batch_id, job_id) ==
    /\ UNCHANGED <<renameVars, auditVars>>
    /\ UNCHANGED <<OPENAI_API_KEY, batches, uploads, outputs, nextBatch, nextJob,
                   procTask, jobTask, jobLocal, jobLog, sem>>
    /\ resp' =
          IF batch_id \notin DOMAIN batches
          THEN Response("download_job_output", 404, "Batch not found.")
          ELSE IF JobIndex(batches[batch_id], job_id) = 0
          THEN Response("download_job_output", 404, "Job not found.")
          ELSE LET job == batches[batch_id].jobs[JobIndex(batches[batch_id], job_id)]
               IN  IF job.output_path = None
                   THEN Response("download_job_output", 404, "Job output not ready.")
                   ELSE IF job.output_path \notin DOMAIN outputs
                   THEN Response("download_job_output", 404, "Output file is missing.")
                   ELSE Response("download_job_output", 200, outputs[job.output_path])

\* -------------------------------------------------------------- scheduler
\* The locals of a job task that has not called the service, or has ended.
NoLocals == [ok |-> FALSE]

JobIds(batch) == {batch.jobs[k].id : k \in 1..Len(batch.jobs)}

\* _process_batch, lines 241-244: look the batch up under the lock.
ProcessLookup(batch_id) ==
    /\ batch_id \in DOMAIN procTask
    /\ procTask[batch_id] = "start"
    /\ procTask' = [procTask EXCEPT ![batch_id] =
                       IF batch_id \in DOMAIN batches THEN "mark" ELSE "done"]
    /\ UNCHANGED <<OPENAI_API_KEY, batches, uploads, outputs, nextBatch, nextJob,
                   jobTask, jobLocal, jobLog, sem, resp>>
    /\ UNCHANGED <<renameVars, auditVars>>

\* _process_batch, lines 246-248: make the semaphore, store status "running".
ProcessMarkRunning(batch_id) ==
    /\ batch_id \in DOMAIN procTask
    /\ procTask[batch_id] = "mark"
    /\ sem' = sem @@ (batch_id :> Max(1, batches[batch_id].concurrency))
    /\ batches' = [batches EXCEPT ![batch_id].status = "running"]
    /\ procTask' = [procTask EXCEPT ![batch_id] = "spawn"]
    /\ UNCHANGED <<OPENAI_API_KEY, uploads, outputs, nextBatch, nextJob,
                   jobTask, jobLocal, jobLog, resp>>
    /\ UNCHANGED <<renameVars, auditVars>>

\* _process_batch, lines 250-251: one _run_job task per job, then gather.
ProcessSpawn(batch_id) ==
    /\ batch_id \in DOMAIN procTask
    /\ procTask[batch_id] = "spawn"
    /\ jobTask' = jobTask @@ [j \in JobIds(batches[batch_id]) |-> "acquire"]
    /\ jobLocal' = jobLocal @@ [j \in JobIds(batches[batch_id]) |-> NoLocals]
    /\ jobLog' = jobLog @@ [j \in JobIds(batches[batch_id]) |->
                             [calls |-> 0, call |-> "none", write |-> "none"]]
    /\ procTask' = [procTask EXCEPT ![batch_id] = "gather"]
    /\ UNCHANGED <<OPENAI_API_KEY, batches, uploads, outputs, nextBatch, nextJob,
                   sem, resp>>
    /\ UNCHANGED <<renameVars, auditVars>>

\* _process_batch, lines 251-256: gather returns once every task has ended;
\* the final recomputation under the lock.
ProcessFinish(batch_id) ==
    /\ batch_id \in DOMAIN procTask
    /\ procTask[batch_id] = "gather"
    /\ \A j \in JobIds(batches[batch_id]) : jobTask[j] = "done"
    /\ batches' = [batches EXCEPT
                      ![batch_id].status = recalculate_status(batches[batch_id])]
    /\ procTask' = [procTask EXCEPT ![batch_id] = "done"]
    /\ UNCHANGED <<OPENAI_API_KEY, uploads, outputs, nextBatch, nextJob,
                   jobTask, jobLocal, jobLog, sem, resp>>
    /\ UNCHANGED <<renameVars, auditVars>>

\* --------------------------------------------------------------- job task
\* The batch a job task was started for.
BatchOf(job_id) ==
    CHOOSE b \in DOMAIN batches : job_id \in JobIds(batches[b])

\* Mutant: acquire returns whether or not a permit is free.
CanAcquireAlways(batch_id) == TRUE

\* asyncio.Semaphore.acquire may return: a permit is free.
CanAcquire(batch_id) == sem[batch_id] > 0

\* Mutant: entering "async with semaphore" takes two permits.
JobAcquireTwo(job_id) ==
    /\ job_id \in DOMAIN jobTask
    /\ jobTask[job_id] = "acquire"
    /\ CanAcquire(BatchOf(job_id))
    /\ sem' = [sem EXCEPT ![BatchOf(job_id)] = @ - 2]
    /\ jobTask' = [jobTask EXCEPT ![job_id] = "submitting"]
    /\ UNCHANGED <<OPENAI_API_KEY, batches, uploads, outputs, nextBatch, nextJob,
                   procTask, jobLocal, jobLog, resp>>
    /\ UNCHANGED <<renameVars, auditVars>>

\* _run_job, line 209: async with semaphore (entry).
JobAcquire(job_id) ==
    /\ job_id \in DOMAIN jobTask
    /\ jobTask[job_id] = "acquire"
    /\ CanAcquire(BatchOf(job_id))
    /\ sem' = [sem EXCEPT ![BatchOf(job_id)] = @ - 1]
    /\ jobTask' = [jobTask EXCEPT ![job_id] = "submitting"]
    /\ UNCHANGED <<OPENAI_API_KEY, batches, uploads, outputs, nextBatch, nextJob,
                   procTask, jobLocal, jobLog, resp>>
    /\ UNCHANGED <<renameVars, auditVars>>

SubmittingChanges ==
    [status |-> "submitting", api_status |-> "submitting", error |-> None]

\* _run_job, line 211.
JobSubmitting(job_id) ==
    /\ job_id \in DOMAIN jobTask
    /\ jobTask[job_id] = "submitting"
    /\ batches' = update_job(batches, BatchOf(job_id), job_id, SubmittingChanges)
    /\ jobTask' = [jobTask EXCEPT ![job_id] = "processing"]
    /\ UNCHANGED <<OPENAI_API_KEY, uploads, outputs, nextBatch, nextJob,
                   procTask, jobLocal, jobLog, sem, resp>>
    /\ UNCHANGED <<renameVars, auditVars>>

ProcessingChanges == [status |-> "processing", api_status |-> "processing"]

\* _run_job, line 212.
JobProcessing(job_id) ==
    /\ job_id \in DOMAIN jobTask
    /\ jobTask[job_id] = "processing"
    /\ batches' = update_job(batches, BatchOf(job_id), job_id, ProcessingChanges)
    /\ jobTask' = [jobTask EXCEPT ![job_id] = "call"]
    /\ UNCHANGED <<OPENAI_API_KEY, uploads, outputs, nextBatch, nextJob,
                   procTask, jobLocal, jobLog, sem, resp>>
    /\ UNCHANGED <<renameVars, auditVars>>

\* What the image service may answer to one request; "timeout" is the
\* httpx timeout of 180 s raised by client.post.
ServiceResponses ==
    { [kind |-> "timeout", status_code |-> 0, data |-> <<>>],
      [kind |-> "http", status_code |-> 500, data |-> <<>>],
      [kind |-> "http", status_code |-> 200, data |-> <<>>],
      [kind |-> "http", status_code |-> 200,
       data |-> <<[b64_json |-> "", revised_prompt |-> None]>>],
      [kind |-> "http", status_code |-> 200,
       data |-> <<[b64_json |-> "abc", revised_prompt |-> None]>>],
      [kind |-> "http", status_code |-> 200,
       data |-> <<[b64_json |-> "aW1n", revised_prompt |-> "rp"]>>] }

\* base64.b64decode over the payloads of ServiceResponses: "abc" has
\* incorrect padding and raises.
B64Decode(b64_json) ==
    CASE b64_json = "aW1n" -> [ok |-> TRUE, bytes |-> "img"]
      [] b64_json = "abc" -> [ok |-> FALSE, bytes |-> ""]

Raised(message) == [ok |-> FALSE, exc |-> message]

\* _create_image_edit: what the call returns or raises, and whether the
\* request was sent, given the service's answer.
create_image_edit(job, batch, response) ==
    IF job.image_path \notin uploads[batch.id]
    THEN [sent |-> 0, result |-> Raised("FileNotFoundError")]
    ELSE IF OPENAI_API_KEY = ""
    THEN [sent |-> 0, result |-> Raised("OPENAI_API_KEY is not set")]
    ELSE [sent |-> 1, result |->
            IF response.kind = "timeout" THEN Raised("ReadTimeout")
            ELSE IF response.status_code >= 400 THEN Raised("Image edit failed")
            ELSE IF response.data = <<>>
                 THEN Raised("Image edit response did not include image data.")
            ELSE IF response.data[1].b64_json = ""
                 THEN Raised("Image edit response did not include b64_json output.")
            ELSE IF ~B64Decode(response.data[1].b64_json).ok
                 THEN Raised("Failed to decode returned image data.")
            ELSE [ok |-> TRUE,
                  image_bytes |-> B64Decode(response.data[1].b64_json).bytes,
                  revised_prompt |-> response.data[1].revised_prompt]]

TheJob(job_id) ==
    batches[BatchOf(job_id)].jobs[JobIndex(batches[BatchOf(job_id)], job_id)]

\* _run_job, line 214: the call to the image service.
JobCall(job_id, response) ==
    /\ job_id \in DOMAIN jobTask
    /\ jobTask[job_id] = "call"
    /\ LET r == create_image_edit(TheJob(job_id), batches[BatchOf(job_id)], response)
       IN  /\ jobLog' = [jobLog EXCEPT ![job_id].calls = @ + r.sent,
                                       ![job_id].call = IF r.result.ok THEN "ok" ELSE "failed"]
           /\ jobLocal' = [jobLocal EXCEPT ![job_id] = r.result]
           /\ jobTask' = [jobTask EXCEPT ![job_id] =
                             IF r.result.ok THEN "write" ELSE "except"]
    /\ UNCHANGED <<OPENAI_API_KEY, batches, uploads, outputs, nextBatch, nextJob,
                   procTask, sem, resp>>
    /\ UNCHANGED <<renameVars, auditVars>>

\* Lines 218-219: OUTPUTS_DIR / batch.id / f"{job.id}.{extension}"
OutputPath(batch, job) ==
    "outputs/" \o ToString(batch.id) \o "/" \o ToString(job.id) \o "." \o
        (IF batch.output_format = "jpeg" THEN "jpg" ELSE batch.output_format)

\* What write_bytes may do: write everything, or raise OSError having
\* written nothing or a part.
DiskOutcomes == {"written", "error", "error_partial"}

\* Mutant: a write that stopped part-way is taken for a finished one.
JobWriteTrustsPartial(job_id, disk) ==
    /\ job_id \in DOMAIN jobTask
    /\ jobTask[job_id] = "write"
    /\ LET path == OutputPath(batches[BatchOf(job_id)], TheJob(job_id))
       IN  CASE disk = "written" ->
                  /\ outputs' = [q \in DOMAIN outputs \cup {path} |->
                                   IF q = path THEN jobLocal[job_id].image_bytes
                                   ELSE outputs[q]]
                  /\ jobLocal' = [jobLocal EXCEPT ![job_id] =
                                    [@ EXCEPT !.ok = TRUE] @@ [output_path |-> path]]
                  /\ jobTask' = [jobTask EXCEPT ![job_id] = "publish"]
             [] disk = "error" ->
                  /\ outputs' = outputs
                  /\ jobLocal' = [jobLocal EXCEPT ![job_id] = Raised("OSError")]
                  /\ jobTask' = [jobTask EXCEPT ![job_id] = "except"]
             [] disk = "error_partial" ->
                  /\ outputs' = [q \in DOMAIN outputs \cup {path} |->
                                   IF q = path THEN "partial" ELSE outputs[q]]
                  /\ jobLocal' = [jobLocal EXCEPT ![job_id] =
                                    [@ EXCEPT !.ok = TRUE] @@ [output_path |-> path]]
                  /\ jobTask' = [jobTask EXCEPT ![job_id] = "publish"]
    /\ jobLog' = [jobLog EXCEPT ![job_id].write =
                                IF disk = "written" THEN "ok" ELSE "failed"]
    /\ UNCHANGED <<OPENAI_API_KEY, batches, uploads, nextBatch, nextJob,
                   procTask, sem, resp>>
    /\ UNCHANGED <<renameVars, auditVars>>

\* _run_job, lines 216-220: make the directory, write the output file.
JobWrite(job_id, disk) ==
    /\ job_id \in DOMAIN jobTask
    /\ jobTask[job_id] = "write"
    /\ LET path == OutputPath(batches[BatchOf(job_id)], TheJob(job_id))
       IN  CASE disk = "written" ->
                  /\ outputs' = [q \in DOMAIN outputs \cup {path} |->
                                   IF q = path THEN jobLocal[job_id].image_bytes
                                   ELSE outputs[q]]
                  /\ jobLocal' = [jobLocal EXCEPT ![job_id] =
                                    [@ EXCEPT !.ok = TRUE] @@ [output_path |-> path]]
                  /\ jobTask' = [jobTask EXCEPT ![job_id] = "publish"]
             [] disk = "error" ->
                  /\ outputs' = outputs
                  /\ jobLocal' = [jobLocal EXCEPT ![job_id] = Raised("OSError")]
                  /\ jobTask' = [jobTask EXCEPT ![job_id] = "except"]
             [] disk = "error_partial" ->
                  /\ outputs' = [q \in DOMAIN outputs \cup {path} |->
                                   IF q = path THEN "partial" ELSE outputs[q]]
                  /\ jobLocal' = [jobLocal EXCEPT ![job_id] = Raised("OSError")]
                  /\ jobTask' = [jobTask EXCEPT ![job_id] = "except"]
    /\ jobLog' = [jobLog EXCEPT ![job_id].write =
                                IF disk = "written" THEN "ok" ELSE "failed"]
    /\ UNCHANGED <<OPENAI_API_KEY, batches, uploads, nextBatch, nextJob,
                   procTask, sem, resp>>
    /\ UNCHANGED <<renameVars, auditVars>>

\* Mutant: the completed update carries no output_path.
CompletedChangesNoPath(local) ==
    [status |-> "completed", api_status |-> "completed",
     revised_prompt |-> local.revised_prompt]

CompletedChanges(local) ==
    [status |-> "completed", api_status |-> "completed",
     revised_prompt |-> local.revised_prompt, output_path |-> local.output_path]

\* Mutant: leaving "async with semaphore" gives no permit back.
ReleaseNothing(batch_id) == sem

\* asyncio.Semaphore.release on leaving "async with semaphore".
Release(batch_id) == [sem EXCEPT ![batch_id] = @ + 1]

\* _run_job, lines 222-229, and the exit of "async with semaphore".
JobPublish(job_id) ==
    /\ job_id \in DOMAIN jobTask
    /\ jobTask[job_id] = "publish"
    /\ batches' = update_job(batches, BatchOf(job_id), job_id,
                             CompletedChanges(jobLocal[job_id]))
    /\ sem' = Release(BatchOf(job_id))
    /\ jobLocal' = [jobLocal EXCEPT ![job_id] = NoLocals]
    /\ jobTask' = [jobTask EXCEPT ![job_id] = "done"]
    /\ UNCHANGED <<OPENAI_API_KEY, uploads, outputs, nextBatch, nextJob,
                   procTask, jobLog, resp>>
    /\ UNCHANGED <<renameVars, auditVars>>

\* Mutant: a failed job is put back in the queue.
FailedChangesRequeue(local) ==
    [status |-> "queued", api_status |-> "failed", error |-> local.exc]

FailedChanges(local) ==
    [status |-> "failed", api_status |-> "failed", error |-> local.exc]

\* Mutant: the except path ends the task without giving its permit back.
JobExceptKeepsPermit(job_id) ==
    /\ job_id \in DOMAIN jobTask
    /\ jobTask[job_id] = "except"
    /\ batches' = update_job(batches, BatchOf(job_id), job_id,
                             FailedChanges(jobLocal[job_id]))
    /\ jobLocal' = [jobLocal EXCEPT ![job_id] = NoLocals]
    /\ jobTask' = [jobTask EXCEPT ![job_id] = "done"]
    /\ UNCHANGED <<OPENAI_API_KEY, uploads, outputs, nextBatch, nextJob,
                   procTask, jobLog, sem, resp>>
    /\ UNCHANGED <<renameVars, auditVars>>

\* Mutant: a job whose call failed calls the service once more.
JobExceptRetries(job_id) ==
    /\ job_id \in DOMAIN jobTask
    /\ jobTask[job_id] = "except"
    /\ IF jobLog[job_id].write = "none" /\ jobLog[job_id].calls < 2
       THEN /\ jobTask' = [jobTask EXCEPT ![job_id] = "call"]
            /\ jobLocal' = [jobLocal EXCEPT ![job_id] = NoLocals]
            /\ UNCHANGED <<batches, sem>>
       ELSE /\ batches' = update_job(batches, BatchOf(job_id), job_id,
                                     FailedChanges(jobLocal[job_id]))
            /\ sem' = Release(BatchOf(job_id))
            /\ jobLocal' = [jobLocal EXCEPT ![job_id] = NoLocals]
            /\ jobTask' = [jobTask EXCEPT ![job_id] = "done"]
    /\ UNCHANGED <<OPENAI_API_KEY, uploads, outputs, nextBatch, nextJob,
                   procTask, jobLog, resp>>
    /\ UNCHANGED <<renameVars, auditVars>>

\* _run_job, lines 230-237, and the exit of "async with semaphore".
JobExcept(job_id) ==
    /\ job_id \in DOMAIN jobTask
    /\ jobTask[job_id] = "except"
    /\ batches' = update_job(batches, BatchOf(job_id), job_id,
                             FailedChanges(jobLocal[job_id]))
    /\ sem' = Release(BatchOf(job_id))
    /\ jobLocal' = [jobLocal EXCEPT ![job_id] = NoLocals]
    /\ jobTask' = [jobTask EXCEPT ![job_id] = "done"]
    /\ UNCHANGED <<OPENAI_API_KEY, uploads, outputs, nextBatch, nextJob,
                   procTask, jobLog, resp>>
    /\ UNCHANGED <<renameVars, auditVars>>

\* ----------------------------------------------------------------- rename
\* The directory is on a POSIX file system: names are case-sensitive, and
\* renaming onto an existing file replaces it.
\* The names a directory of the model starts with.
InitialNames == {"a.png", "B.png", "b.png", "c.PNG", "img_1.png", "img_2.png", "notes.txt"}

\* str.lower of a file name.
Lower(name) ==
    CASE name = "B.png" -> "b.png"
      [] name = "c.PNG" -> "c.png"
      [] OTHER -> name

\* Path.suffix.lower() of a file name: every name of the model but notes.txt
\* ends in .png or .PNG.
LowerSuffix(name) == IF name = "notes.txt" THEN ".txt" ELSE ".png"

\* f"{validated_base}_{idx}.png"
PlannedName(base, idx) == base \o "_" \o ToString(idx) \o ".png"

\* f".__tmp_rename_{uuid.uuid4().hex}.png", the token being the draw's number.
TempName(token) == ".__tmp_rename_" \o ToString(token) \o ".png"

\* The lower-case names of the model in the order of Python's string
\* comparison (index numbers have one digit: MaxFiles is at most 9).
Collation ==
    <<"a.png", "b.png", "c.png">>
    \o [k \in 1..MaxFiles |-> PlannedName("cat", k)]
    \o [k \in 1..MaxFiles |-> PlannedName("img", k)]
    \o <<"notes.txt">>

\* The position of name.lower() among the lower-case names.
SortKey(name) == CHOOSE r \in 1..Len(Collation) : Collation[r] = Lower(name)

\* sorted(candidates, key=lambda p: p.name.lower()): the orders it may return;
\* names with equal keys stay in the order iterdir() gave them, which is any.
SortedOrders(candidates) ==
    {order \in [1..Cardinality(candidates) -> candidates] :
        /\ \A i, j \in DOMAIN order : i < j => order[i] # order[j]
        /\ \A i, j \in DOMAIN order : i < j => SortKey(order[i]) <= SortKey(order[j])}

\* _validate_base_name over the base names the model sends: cleaned is
\* base_name.strip(), and none of them holds a run of whitespace inside.
validate_base_name(base_name) ==
    LET cleaned == CASE base_name = " cat " -> "cat"
                     [] OTHER -> base_name
    IN  IF cleaned = "" THEN [ok |-> FALSE, detail |-> "Base name is required."]
        ELSE IF cleaned = "a/b"
             THEN [ok |-> FALSE, detail |-> "Base name contains invalid filename characters"]
        ELSE IF cleaned = "cat."
             THEN [ok |-> FALSE, detail |-> "Base name cannot end with a space or period."]
        ELSE [ok |-> TRUE, cleaned |-> cleaned]

File(content) == [kind |-> "file", content |-> content]
Directory == [kind |-> "dir", content |-> ""]

\* Path.rename on POSIX: the entry takes the new name, replacing a file there.
Renamed(d, source, target) ==
    [n \in (DOMAIN d \ {source}) \cup {target} |-> IF n = target THEN d[source] ELSE d[n]]

RenameUnchanged ==
    UNCHANGED <<OPENAI_API_KEY, batches, uploads, outputs, nextBatch, nextJob,
                procTask, jobTask, jobLocal, jobLog, sem, lockedIO, unlockedWrites>>

\* Mutant: the pre-flight check of the planned names is missing.
rename_pngsNoPreflight(folder_path, base_name) ==
    LET v == validate_base_name(base_name)
        candidates == {n \in DOMAIN dir : dir[n].kind = "file" /\ LowerSuffix(n) = ".png"}
        Reject(detail) ==
            /\ resp' = Response("rename_pngs", 400, detail)
            /\ UNCHANGED <<dir, renTask, png_files, temp_paths, renamed, tokens>>
    IN  /\ renTask = "idle"
        /\ before' = dir
        /\ RenameUnchanged
        /\ IF ~v.ok THEN Reject(v.detail) /\ UNCHANGED validated_base
           ELSE /\ validated_base' = v.cleaned
                /\ IF folder_path = "/missing" THEN Reject("Folder does not exist.")
                   ELSE IF folder_path = "/pngs/notes.txt"
                        THEN Reject("Provided path is not a folder.")
                   ELSE IF candidates = {} THEN Reject("No .png files found")
                   ELSE \E order \in SortedOrders(candidates) :
                          /\ tokens + Len(order) <= MaxTokens
                          /\ png_files' = order
                          /\ temp_paths' = <<>>
                          /\ renamed' = <<>>
                          /\ renTask' = "phase1"
                          /\ UNCHANGED <<dir, tokens, resp>>

\* rename_pngs, lines 418-442: validation, the candidate list, the planned
\* names and the pre-flight check.
rename_pngs(folder_path, base_name) ==
    LET v == validate_base_name(base_name)
        candidates == {n \in DOMAIN dir : dir[n].kind = "file" /\ LowerSuffix(n) = ".png"}
        Reject(detail) ==
            /\ resp' = Response("rename_pngs", 400, detail)
            /\ UNCHANGED <<dir, renTask, png_files, temp_paths, renamed, tokens>>
    IN  /\ renTask = "idle"
        /\ before' = dir
        /\ RenameUnchanged
        /\ IF ~v.ok THEN Reject(v.detail) /\ UNCHANGED validated_base
           ELSE /\ validated_base' = v.cleaned
                /\ IF folder_path = "/missing" THEN Reject("Folder does not exist.")
                   ELSE IF folder_path = "/pngs/notes.txt"
                        THEN Reject("Provided path is not a folder.")
                   ELSE IF candidates = {} THEN Reject("No .png files found")
                   ELSE \E order \in SortedOrders(candidates) :
                          LET planned_names ==
                                  [idx \in 1..Len(order) |-> PlannedName(v.cleaned, idx)]
                              current_set == {order[k] : k \in 1..Len(order)}
                          IN  IF \E k \in 1..Len(planned_names) :
                                    /\ planned_names[k] \in DOMAIN dir
                                    /\ planned_names[k] \notin current_set
                              THEN Reject("Cannot rename because target file already exists")
                              ELSE /\ tokens + Len(order) <= MaxTokens
                                   /\ png_files' = order
                                   /\ temp_paths' = <<>>
                                   /\ renamed' = <<>>
                                   /\ renTask' = "phase1"
                                   /\ UNCHANGED <<dir, tokens, resp>>

\* What one Path.rename may do: rename, or raise OSError changing nothing
\* (it always raises FileNotFoundError when the source is gone).
RenameOutcomes == {"renamed", "error"}

\* Mutant: phase 1 renames the source straight to its final name.
TempTargetFinal == PlannedName(validated_base, Len(temp_paths) + 1)

\* Mutant: every temporary name is made from the same token.
TempTargetReused == TempName(1)

\* Line 447-448: the temporary name of the next source.
TempTarget == TempName(tokens + 1)

\* rename_pngs, lines 446-450: one turn of the phase-1 loop.  An OSError
\* is not caught here and ends the handler.
RenamePhase1(os) ==
    /\ renTask = "phase1"
    /\ RenameUnchanged
    /\ tokens' = tokens + 1
    /\ UNCHANGED <<png_files, renamed, validated_base, before>>
    /\ IF os = "renamed" /\ png_files[Len(temp_paths) + 1] \in DOMAIN dir
       THEN /\ dir' = Renamed(dir, png_files[Len(temp_paths) + 1], TempTarget)
            /\ temp_paths' = Append(temp_paths, TempTarget)
            /\ renTask' = IF Len(temp_paths) + 1 = Len(png_files) THEN "phase2" ELSE "phase1"
            /\ UNCHANGED resp
       ELSE /\ resp' = Response("rename_pngs", 500, "Internal Server Error")
            /\ renTask' = "failed"
            /\ UNCHANGED <<dir, temp_paths>>

\* Mutant: a failure in phase 2 puts the directory back as it was.
RenamePhase2Rollback(os) ==
    LET idx == Len(renamed) + 1
        new_name == PlannedName(validated_base, idx)
    IN  /\ renTask = "phase2"
        /\ RenameUnchanged
        /\ UNCHANGED <<png_files, temp_paths, validated_base, tokens, before>>
        /\ IF os = "renamed" /\ temp_paths[idx] \in DOMAIN dir
           THEN /\ dir' = Renamed(dir, temp_paths[idx], new_name)
                /\ renamed' = Append(renamed, [old_name |-> png_files[idx],
                                               new_name |-> new_name])
                /\ IF idx = Len(temp_paths)
                   THEN /\ resp' = Response("rename_pngs", 200, "renamed")
                        /\ renTask' = "idle"
                   ELSE UNCHANGED <<resp, renTask>>
           ELSE /\ resp' = Response("rename_pngs", 500, "Rename failed")
                /\ renTask' = "failed"
                /\ dir' = before
                /\ UNCHANGED renamed

\* rename_pngs, lines 454-468: one turn of the phase-2 loop, and the
\* response after the last one.
RenamePhase2(os) ==
    LET idx == Len(renamed) + 1
        new_name == PlannedName(validated_base, idx)
    IN  /\ renTask = "phase2"
        /\ RenameUnchanged
        /\ UNCHANGED <<png_files, temp_paths, validated_base, tokens, before>>
        /\ IF os = "renamed" /\ temp_paths[idx] \in DOMAIN dir
           THEN /\ dir' = Renamed(dir, temp_paths[idx], new_name)
                /\ renamed' = Append(renamed, [old_name |-> png_files[idx],
                                               new_name |-> new_name])
                /\ IF idx = Len(temp_paths)
                   THEN /\ resp' = Response("rename_pngs", 200, "renamed")
                        /\ renTask' = "idle"
                   ELSE UNCHANGED <<resp, renTask>>
           ELSE /\ resp' = Response("rename_pngs", 500, "Rename failed")
                /\ renTask' = "failed"
                /\ UNCHANGED <<dir, renamed>>

\* ------------------------------------------------------- specifications
BatchIds == 1..MaxBatches
AllJobIds == 1..MaxJobs

InitRename ==
    /\ dir = <<>>
    /\ before = <<>>
    /\ renTask = "idle"
    /\ png_files = <<>>
    /\ temp_paths = <<>>
    /\ renamed = <<>>
    /\ validated_base = ""
    /\ tokens = 0

InitBatches ==
    /\ OPENAI_API_KEY \in {"", "sk-key"}
    /\ batches = <<>>
    /\ uploads = <<>>
    /\ outputs = <<>>
    /\ nextBatch = 0
    /\ nextJob = 0
    /\ procTask = <<>>
    /\ jobTask = <<>>
    /\ jobLocal = <<>>
    /\ jobLog = <<>>
    /\ sem = <<>>
    /\ resp = Response("none", 0, "")
    /\ lockedIO = {}
    /\ unlockedWrites = {}

Init == InitBatches /\ InitRename

Upload(filename, content) == [filename |-> filename, content |-> content]

\* The submissions of the scheduler specification, all of them accepted.
RunPrompts == {<<"x">>, <<"x", "  ", " y ">>}
RunImages == {<<Upload("a.jpg", "A")>>, <<Upload("a.jpg", "A"), Upload("d/b.jpg", "B")>>}
RunConcurrency == {1, 2}
RunResponses == {r \in ServiceResponses : r.status_code = 500 \/ r.data # <<>>}

\* Room for one more batch of n jobs, within the bounds.
Room(n, maxBatches, maxJobs) == nextBatch < maxBatches /\ nextJob + n <= maxJobs

SubmitWithin(maxBatches) ==
    \E prompts_text \in RunPrompts, images \in RunImages, concurrency \in RunConcurrency :
        /\ Room(Len(sanitize_prompts(prompts_text)) * Len(images), maxBatches, MaxRunJobs)
        /\ create_batch(prompts_text, images, "medium", "jpeg", concurrency)

Submit == SubmitWithin(MaxBatches)

Poll == \E batch_id \in BatchIds : get_batch(batch_id)

Scheduler ==
    \E batch_id \in BatchIds :
        \/ ProcessLookup(batch_id)
        \/ ProcessMarkRunning(batch_id)
        \/ ProcessSpawn(batch_id)
        \/ ProcessFinish(batch_id)

JobStep(job_id) ==
    \/ JobAcquire(job_id)
    \/ JobSubmitting(job_id)
    \/ JobProcessing(job_id)
    \/ \E response \in RunResponses : JobCall(job_id, response)
    \/ \E disk \in DiskOutcomes : JobWrite(job_id, disk)
    \/ JobPublish(job_id)
    \/ JobExcept(job_id)

Next ==
    \/ Submit
    \/ Poll
    \/ Scheduler
    \/ \E job_id \in AllJobIds : JobStep(job_id)

Spec == Init /\ [][Next]_vars

\* The submissions of the submit-handler specification: every prompt text
\* with one or two good images, every image list with one or two prompts,
\* and every combination of a valid or invalid value for each field.
BoundedSeq(S, n) == UNION {[1..k -> S] : k \in 0..n}

SubmitLines == {"  ", "x", " y "}
SubmitUploads == {Upload("a.jpg", "A"), Upload("d/b.jpg", "B"),
                  Upload("", "C"), Upload("c.jpg", "")}

Submission(prompts_text, images, quality, output_format, concurrency) ==
    [prompts_text |-> prompts_text, images |-> images, quality |-> quality,
     output_format |-> output_format, concurrency |-> concurrency]

PromptSubmissions ==
    {Submission(t, i, "medium", "jpeg", MinConcurrency) :
        t \in BoundedSeq(SubmitLines, MaxLines), i \in RunImages}

ImageSubmissions ==
    {Submission(t, i, "medium", "jpeg", MaxConcurrency) :
        t \in RunPrompts, i \in BoundedSeq(SubmitUploads, MaxImages)}

FieldSubmissions ==
    {Submission(t, i, f[1], f[2], c) :
        t \in {<<"  ">>, <<"x">>},
        i \in {<<>>, <<Upload("a.jpg", "A")>>},
        f \in {"medium", "ultra"} \X {"png", "bmp"},
        c \in {MinConcurrency - 1, MinConcurrency, MaxConcurrency, MaxConcurrency + 1}}

Submits(s) ==
    /\ Room(Len(s.prompts_text) * Len(s.images), MaxBatches, MaxJobs)
    /\ create_batch(s.prompts_text, s.images, s.quality, s.output_format, s.concurrency)

SubmitPrompts == \E s \in PromptSubmissions : Submits(s)

SubmitImages == \E s \in ImageSubmissions : Submits(s)

SubmitFields == \E s \in FieldSubmissions : Submits(s)

SubmitNext ==
    \/ SubmitPrompts
    \/ SubmitImages
    \/ SubmitFields
    \/ Poll

SubmitSpec == Init /\ [][SubmitNext]_vars

\* The directories of the rename specification: any of the initial names,
\* img_2.png being a file or a directory, with at most MaxFiles .png files.
InitialDirs ==
    {d \in UNION {[S -> {"file", "dir"}] : S \in SUBSET InitialNames} :
        /\ \A n \in DOMAIN d : d[n] = "dir" => n = "img_2.png"
        /\ Cardinality({n \in DOMAIN d : d[n] = "file" /\ LowerSuffix(n) = ".png"}) <= MaxFiles}

RenameInit ==
    /\ InitBatches
    /\ OPENAI_API_KEY = "sk-key"
    /\ \E d \in InitialDirs :
          dir = [n \in DOMAIN d |-> IF d[n] = "dir" THEN Directory ELSE File(n)]
    /\ before = <<>>
    /\ renTask = "idle"
    /\ png_files = <<>>
    /\ temp_paths = <<>>
    /\ renamed = <<>>
    /\ validated_base = ""
    /\ tokens = 0

RenameFolders == {"/pngs", "/missing", "/pngs/notes.txt"}
RenameBases == {"img", " cat ", "", "a/b", "cat."}

RenameCall ==
    \E folder_path \in RenameFolders, base_name \in RenameBases :
        rename_pngs(folder_path, base_name)

RenameNext ==
    \/ RenameCall
    \/ \E os \in RenameOutcomes : RenamePhase1(os)
    \/ \E os \in RenameOutcomes : RenamePhase2(os)

RenameSpec == RenameInit /\ [][RenameNext]_vars

TaskStep == Scheduler \/ \E job_id \in AllJobIds : JobStep(job_id)

\* The scheduler's tasks are asyncio tasks: while some task is ready the event
\* loop runs one, and every awaited call returns or raises (the image request
\* within its 180 s timeout).  Requests (Submit, Poll) may stop arriving.
FairSubmit == SubmitWithin(MaxFairBatches)

FairNext ==
    \/ FairSubmit
    \/ Poll
    \/ Scheduler
    \/ \E job_id \in AllJobIds : JobStep(job_id)

FairSpec == Init /\ [][FairNext]_vars /\ WF_vars(TaskStep)

\* One batch, run by its tasks while its status is polled and its outputs
\* are downloaded.
Download ==
    \E batch_id \in BatchIds, job_id \in AllJobIds : download_job_output(batch_id, job_id)

\* Here the service gives any of its answers.
ServeJobStep(job_id) ==
    \/ JobStep(job_id)
    \/ \E response \in ServiceResponses \ RunResponses : JobCall(job_id, response)

ServeNext ==
    \/ FairSubmit
    \/ Poll
    \/ Download
    \/ Scheduler
    \/ \E job_id \in AllJobIds : ServeJobStep(job_id)

ServeSpec == Init /\ [][ServeNext]_vars

\* ----------------------------------------------------------------- claims
JobsOf(batch_id) == {batches[batch_id].jobs[k] : k \in 1..Len(batches[batch_id].jobs)}

Active(batch_id) == {j \in JobsOf(batch_id) : j.status \in {"submitting", "processing"}}

Terminal(job) == job.status \in {"completed", "failed"}

\* C1: in every reachable state the number of a batch's jobs in submitting or
\* processing is at most the batch's concurrency, which lies in 1..10.
C1_ConcurrencyBound ==
    \A b \in DOMAIN batches :
        /\ batches[b].concurrency \in MinConcurrency..MaxConcurrency
        /\ Cardinality(Active(b)) <= batches[b].concurrency

\* C1 witness: a batch at its ceiling, with a sibling waiting for the permit.
C1_Witness ==
    \E b \in DOMAIN batches :
        /\ Cardinality(Active(b)) = batches[b].concurrency
        /\ \E j \in JobsOf(b) :
              j.id \in DOMAIN jobTask /\ jobTask[j.id] = "acquire" /\ j.status = "queued"

\* C2: in every reachable state the stored batch status equals the six-rule
\* function of the current job statuses.
C2_StatusIsDerived ==
    \A b \in DOMAIN batches : batches[b].status = recalculate_status(batches[b])

AllowedMoves ==
    { <<"queued", "submitting">>, <<"submitting", "processing">>,
      <<"processing", "completed">>, <<"processing", "failed">> }

\* C3: every change of a job's status is one of queued->submitting,
\* submitting->processing, processing->completed, processing->failed; hence a
\* completed or failed job never changes status again.
C3_JobStateMachine ==
    [][\A b \in DOMAIN batches : \A k \in 1..Len(batches[b].jobs) :
          batches'[b].jobs[k].status # batches[b].jobs[k].status =>
              <<batches[b].jobs[k].status, batches'[b].jobs[k].status>> \in AllowedMoves]_vars

\* C3 witness: both terminal statuses reached in one batch, polled afterwards.
C3_Witness ==
    \E b \in DOMAIN batches :
        /\ \E j \in JobsOf(b) : j.status = "completed"
        /\ \E j \in JobsOf(b) : j.status = "failed"
        /\ resp.op = "get_batch"

Finished(batch_id) ==
    /\ batch_id \in DOMAIN batches
    /\ \A j \in JobsOf(batch_id) : Terminal(j)
    /\ batches[batch_id].status \in {"completed", "completed_with_errors"}

\* C4: under fair scheduling, once a batch is registered every one of its jobs
\* eventually is completed or failed and its status eventually is completed
\* or completed_with_errors.
C4_BatchTerminates ==
    \A b \in BatchIds : (b \in DOMAIN batches) ~> Finished(b)

\* C4 witness: a batch of two jobs and one permit has run to its end.
C4_Witness ==
    \E b \in DOMAIN batches :
        /\ Finished(b)
        /\ procTask[b] = "done"
        /\ batches[b].concurrency = 1
        /\ Len(batches[b].jobs) = 2

Ended(job) == job.id \in DOMAIN jobTask /\ jobTask[job.id] = "done"

Holding(batch_id) ==
    {j \in JobsOf(batch_id) :
        j.id \in DOMAIN jobTask /\ jobTask[j.id] \notin {"acquire", "done"}}

\* A queued sibling waits only for siblings that are still running.
PermitForWaiting(batch_id) ==
    (/\ batch_id \in DOMAIN sem
     /\ \E j \in JobsOf(batch_id) : j.id \in DOMAIN jobTask /\ jobTask[j.id] = "acquire"
     /\ Cardinality(Holding(batch_id)) < batches[batch_id].concurrency)
    => CanAcquire(batch_id)

\* C5 as stated: a job ends completed exactly when its call and its write
\* succeeded, and failed exactly when its call failed.
C5_AsStated ==
    \A b \in DOMAIN batches : \A j \in JobsOf(b) :
        Ended(j) =>
            /\ j.status = "completed" <=>
                  (jobLog[j.id].call = "ok" /\ jobLog[j.id].write = "ok")
            /\ j.status = "failed" <=> jobLog[j.id].call = "failed"

\* C5 (amended): a job ends completed exactly when its own call and output
\* write succeeded, and failed exactly when its own call or its own output
\* write failed, whatever its siblings did; and a job that ended never keeps
\* a waiting sibling from a permit.
C5_FailureIsolation ==
    \A b \in DOMAIN batches :
        /\ PermitForWaiting(b)
        /\ \A j \in JobsOf(b) :
              Ended(j) =>
                  /\ j.status = "completed" <=>
                        (jobLog[j.id].call = "ok" /\ jobLog[j.id].write = "ok")
                  /\ j.status = "failed" <=>
                        (jobLog[j.id].call = "failed" \/ jobLog[j.id].write = "failed")

\* C5 witness: a job failed on its call and ended while its sibling, queued
\* behind it for the only permit, completed.
C5_Witness ==
    \E b \in DOMAIN batches : \E j, k \in JobsOf(b) :
        /\ batches[b].concurrency = 1
        /\ Ended(j) /\ j.status = "failed" /\ jobLog[j.id].call = "failed"
        /\ Ended(k) /\ k.status = "completed"

FiveSum(c) ==
    c["queued"] + c["submitting"] + c["processing"] + c["completed"] + c["failed"]

Identity(job) ==
    <<job.id, job.batch_id, job.sequence, job.image_filename, job.image_path, job.prompt>>

\* C6: in every state the five status counts of a batch sum to its number of
\* jobs, and no step adds a job to a batch or removes or replaces one.
C6_CountsAndJobList ==
    /\ [](\A b \in DOMAIN batches :
             /\ counts(batches[b])["total"] = Len(batches[b].jobs)
             /\ FiveSum(counts(batches[b])) = Len(batches[b].jobs))
    /\ [][\A b \in DOMAIN batches :
             /\ b \in DOMAIN batches'
             /\ Len(batches'[b].jobs) = Len(batches[b].jobs)
             /\ \A k \in 1..Len(batches[b].jobs) :
                   Identity(batches'[b].jobs[k]) = Identity(batches[b].jobs[k])]_vars

\* C6 witness: a batch whose two jobs are in different statuses, neither queued.
C6_Witness ==
    \E b \in DOMAIN batches : \E j, k \in JobsOf(b) :
        /\ j.status = "processing"
        /\ k.status = "completed"

Submissions == PromptSubmissions \cup ImageSubmissions \cup FieldSubmissions

\* The prompts of a submission: its lines that are not blank.
PromptLines(s) == {k \in 1..Len(s.prompts_text) : Strip(s.prompts_text[k]) # ""}

\* C7: an accepted submission of I images and P prompts registers a batch of
\* exactly I*P jobs, and the job of image i and prompt p is the one at
\* position (i-1)*P + p and carries that sequence number.
C7_JobEnumeration ==
    [][(resp'.status = 200 /\ nextBatch' # nextBatch) =>
       \A s \in Submissions :
          Submits(s) =>
              LET B == batches'[nextBatch']
                  I == Len(s.images)
                  P == Cardinality(PromptLines(s))
              IN  /\ nextBatch' \notin DOMAIN batches
                  /\ Len(B.prompts) = P
                  /\ Len(B.jobs) = I * P
                  /\ \A i \in 1..I : \A p \in 1..P :
                        LET job == B.jobs[(i - 1) * P + p]
                        IN  /\ job.sequence = (i - 1) * P + p
                            /\ job.image_filename = PathName(s.images[i].filename)
                            /\ job.image_path =
                                  UploadPath(B.id, i, PathName(s.images[i].filename))
                            /\ job.prompt = B.prompts[p]
                  /\ {B.jobs[k].sequence : k \in 1..Len(B.jobs)} = 1..(I * P)]_vars

\* C7 witness: two images and two prompts gave (a,x), (a,y), (b,x), (b,y).
C7_Witness ==
    \E b \in DOMAIN batches :
        /\ batches[b].image_filenames = <<"a.jpg", "b.jpg">>
        /\ batches[b].prompts = <<"x", "y">>
        /\ [k \in 1..Len(batches[b].jobs) |->
               <<batches[b].jobs[k].sequence, batches[b].jobs[k].image_filename,
                 batches[b].jobs[k].prompt>>]
             = << <<1, "a.jpg", "x">>, <<2, "a.jpg", "y">>,
                  <<3, "b.jpg", "x">>, <<4, "b.jpg", "y">> >>

\* The submissions C8 names: no prompt, no image, concurrency outside 1..10,
\* quality or output format outside its set, or no credential.
Unacceptable(s) ==
    \/ PromptLines(s) = {}
    \/ Len(s.images) = 0
    \/ s.concurrency \notin 1..10
    \/ s.quality \notin {"auto", "low", "medium", "high"}
    \/ s.output_format \notin {"png", "webp", "jpeg"}
    \/ OPENAI_API_KEY = ""

\* C8: such a submission is answered with an error and registers no batch,
\* creates no job and starts no scheduler task.
C8_RejectedLeavesRegistry ==
    [][\A s \in Submissions :
          (Unacceptable(s) /\ Submits(s)) =>
              /\ resp'.status >= 400
              /\ UNCHANGED <<batches, nextJob, procTask, jobTask, sem>>]_vars

\* C8 witness: a submission was rejected for its concurrency while the
\* registry held a batch.
C8_Witness ==
    /\ resp.op = "create_batch"
    /\ resp.detail = "concurrency must be between 1 and 10"
    /\ DOMAIN batches # {}

\* C9: when a submission has been rejected with a validation error, no upload
\* directory or image file of it exists: every upload directory belongs to a
\* registered batch.
C9_RejectedLeavesNoFiles ==
    (resp.op = "create_batch" /\ resp.status = 400) =>
        \A b \in DOMAIN uploads : b \in DOMAIN batches

\* The .png files of a directory: the files that take part in a rename.
PngFiles(d) == {n \in DOMAIN d : d[n].kind = "file" /\ LowerSuffix(n) = ".png"}

\* Some planned name is the name of an entry that does not take part.
ForeignCollision(d, base) ==
    \E k \in 1..Cardinality(PngFiles(d)) :
        PlannedName(base, k) \in DOMAIN d \ PngFiles(d)

RenameReturned(status) ==
    renTask = "idle" /\ resp.op = "rename_pngs" /\ resp.status = status

\* C10: a rename of N >= 1 .png files with a valid base name and no planned
\* name taken by another entry is not refused, and when it returns its result
\* the i-th file in case-insensitive name order is <base>_<i>.png with its
\* contents, the other entries are as before and the directory holds as many
\* entries as before.  While the rename is under way, and when it stops on an
\* OSError, no entry is lost: the directory holds as many entries as before
\* and the contents of every original .png file are still under some name.
C10_RenameBijection ==
    /\ renTask \in {"phase1", "phase2", "failed"} =>
          /\ Cardinality(DOMAIN dir) = Cardinality(DOMAIN before)
          /\ \A f \in PngFiles(before) : \E n \in DOMAIN dir : dir[n] = before[f]
    /\ (RenameReturned(400) /\ resp.detail = "Cannot rename because target file already exists")
          => ForeignCollision(before, validated_base)
    /\ RenameReturned(200) =>
          LET N == Cardinality(PngFiles(before))
              planned == {PlannedName(validated_base, i) : i \in 1..N}
          IN  /\ N >= 1
              /\ Len(png_files) = N
              /\ {png_files[i] : i \in 1..N} = PngFiles(before)
              /\ \A i, j \in 1..N : i < j => SortKey(png_files[i]) <= SortKey(png_files[j])
              /\ \A i \in 1..N :
                    /\ PlannedName(validated_base, i) \in DOMAIN dir
                    /\ dir[PlannedName(validated_base, i)] = before[png_files[i]]
              /\ \A n \in DOMAIN before \ PngFiles(before) :
                    n \in DOMAIN dir /\ dir[n] = before[n]
              /\ DOMAIN dir = (DOMAIN before \ PngFiles(before)) \cup planned
              /\ Cardinality(DOMAIN dir) = Cardinality(DOMAIN before)
              /\ Cardinality(planned) = N

\* C10 witness: a.png and img_1.png were renamed with base img, so that
\* img_1.png now holds a.png and the former img_1.png is img_2.png, next to
\* an untouched notes.txt.
C10_Witness ==
    /\ RenameReturned(200)
    /\ validated_base = "img"
    /\ "img_1.png" \in PngFiles(before)
    /\ {"img_1.png", "img_2.png"} \subseteq DOMAIN dir
    /\ dir["img_1.png"] = File("a.png")
    /\ dir["img_2.png"] = File("img_1.png")
    /\ "notes.txt" \in DOMAIN dir

ConflictDetail == "Cannot rename because target file already exists"

\* C11: a rename call on the existing folder with a valid base name, one of
\* whose planned names <base>_<k>.png (k = 1..N) is an entry that is not among
\* the .png files, returns the conflict error and changes nothing: the
\* directory is as before and no temporary name has been drawn or used.
C11_PreflightAbort ==
    [][\A base_name \in RenameBases :
          (/\ validate_base_name(base_name).ok
           /\ ForeignCollision(dir, validate_base_name(base_name).cleaned)
           /\ rename_pngs("/pngs", base_name)) =>
              /\ resp' = Response("rename_pngs", 400, ConflictDetail)
              /\ renTask' = "idle"
              /\ dir' = dir
              /\ temp_paths' = temp_paths
              /\ tokens' = tokens]_vars

\* C11 witness: base img was refused for a directory of two or more .png
\* files in which img_2.png is a folder, and the directory is as it was.
C11_Witness ==
    /\ RenameReturned(400)
    /\ resp.detail = ConflictDetail
    /\ validated_base = "img"
    /\ ForeignCollision(before, validated_base)
    /\ Cardinality(PngFiles(before)) >= 2
    /\ "img_2.png" \in DOMAIN before /\ before["img_2.png"] = Directory
    /\ dir = before

\* C12: when the phase-2 rename of the file at index i has failed, the
\* handler has answered with the error and put nothing back: the files at
\* 1..i-1 are under their final names, the files at i..N under their
\* temporary names, and nothing else is in the place of the .png files; an
\* original name is in the directory only where it is one of the final names
\* already given.
C12_NoRollback ==
    (renTask = "failed" /\ resp = Response("rename_pngs", 500, "Rename failed")) =>
        LET N == Len(png_files)
            i == Len(renamed) + 1
            finals == {PlannedName(validated_base, k) : k \in 1..(i - 1)}
            temps == {temp_paths[k] : k \in i..N}
        IN  /\ i \in 1..N
            /\ Len(temp_paths) = N
            /\ \A k \in 1..(i - 1) :
                  /\ PlannedName(validated_base, k) \in DOMAIN dir
                  /\ dir[PlannedName(validated_base, k)] = before[png_files[k]]
            /\ \A k \in i..N :
                  /\ temp_paths[k] \in DOMAIN dir
                  /\ dir[temp_paths[k]] = before[png_files[k]]
            /\ DOMAIN dir = (DOMAIN before \ PngFiles(before)) \cup finals \cup temps
            /\ \A k \in 1..N : png_files[k] \in DOMAIN dir => png_files[k] \in finals

\* C12 witness: of three files the first has its final name, and the rename
\* of the second failed.
C12_Witness ==
    /\ renTask = "failed"
    /\ resp = Response("rename_pngs", 500, "Rename failed")
    /\ Len(png_files) = 3
    /\ Len(renamed) = 1
    /\ temp_paths[2] \in DOMAIN dir

\* C13: in every reachable state, no task has made a network call or a disk
\* access (a file-system existence check included) while it held the
\* registry lock.
C13_NoIOUnderLock == lockedIO = {}

\* C14: in every reachable state, no field of a registered batch or job has
\* been written by a task that did not hold the registry lock, the status
\* recomputation of the submit response included.
C14_WritesUnderLock == unlockedWrites = {}

\* The images the service of the model can return, decoded.
ImageBytes ==
    {B64Decode(r.data[1].b64_json).bytes :
        r \in {q \in ServiceResponses :
                  /\ q.kind = "http" /\ q.status_code < 400 /\ q.data # <<>>
                  /\ q.data[1].b64_json # ""
                  /\ B64Decode(q.data[1].b64_json).ok}}

\* C15: in every reachable state, a job that is completed or has an
\* output_path has its whole output file on disk, under the name made of its
\* job id; the only files under the output directory are the jobs' own, one
\* per job at most; a download is never answered with a missing file or with
\* part of a file; and a job task writes once at most, a file on disk never
\* being written again.
C15_OutputBeforePublish ==
    /\ [](/\ \A b \in DOMAIN batches : \A j \in JobsOf(b) :
               (j.status = "completed" \/ j.output_path # None) =>
                   /\ j.output_path = OutputPath(batches[b], j)
                   /\ j.output_path \in DOMAIN outputs
                   /\ outputs[j.output_path] \in ImageBytes
          /\ DOMAIN outputs \subseteq
                UNION {{OutputPath(batches[b], j) : j \in JobsOf(b)} : b \in DOMAIN batches}
          /\ resp.op = "download_job_output" =>
                /\ resp.detail # "Output file is missing."
                /\ resp.status = 200 => resp.detail \in ImageBytes)
    /\ [][\A j \in DOMAIN jobLog :
             /\ jobLog'[j].write # jobLog[j].write => jobLog[j].write = "none"
             /\ \A q \in DOMAIN outputs :
                   q \in DOMAIN outputs' /\ outputs'[q] = outputs[q]]_vars

\* C15 witness: the output of a completed job was downloaded in full while
\* the file of a sibling, whose write broke off, lies on disk in part.
C15_Witness ==
    /\ resp.op = "download_job_output" /\ resp.status = 200
    /\ \E b \in DOMAIN batches : \E j, k \in JobsOf(b) :
          /\ j.status = "completed"
          /\ k.status = "failed" /\ k.output_path = None
          /\ OutputPath(batches[b], k) \in DOMAIN outputs
          /\ outputs[OutputPath(batches[b], k)] \notin ImageBytes

\* The permits of a batch's semaphore: max(1, batch.concurrency).
Capacity(batch_id) == Max(1, batches[batch_id].concurrency)

\* C16: in every reachable state the permits in use are those of the job
\* tasks that have entered and not left "async with semaphore", one each, and
\* never more than the batch's concurrency; a job in submitting or processing
\* holds one; when every job is completed or failed and every task has ended
\* none is in use.  A job leaves queued only while its task holds a permit,
\* entering takes one permit and ending (on any path) gives one back.
C16_PermitAccounting ==
    /\ [](/\ \A b \in DOMAIN sem :
               /\ sem[b] >= 0
               /\ sem[b] + Cardinality(Holding(b)) = Capacity(b)
               /\ Cardinality(Holding(b)) <= batches[b].concurrency
               /\ Active(b) \subseteq Holding(b)
               /\ (\A j \in JobsOf(b) : Terminal(j) /\ Ended(j)) => sem[b] = Capacity(b)
          /\ \A b \in DOMAIN batches \ DOMAIN sem : Active(b) = {})
    /\ [][\A b \in DOMAIN sem : \A k \in 1..Len(batches[b].jobs) :
             LET j == batches[b].jobs[k].id IN
             /\ (batches[b].jobs[k].status = "queued" /\ batches'[b].jobs[k].status # "queued")
                   => batches[b].jobs[k] \in Holding(b)
             /\ (j \in DOMAIN jobTask /\ jobTask[j] = "acquire" /\ jobTask'[j] # "acquire")
                   => sem'[b] = sem[b] - 1
             /\ (j \in DOMAIN jobTask /\ jobTask[j] # "done" /\ jobTask'[j] = "done")
                   => sem'[b] = sem[b] + 1]_vars

\* C16 witness: both tasks of a batch with one permit have ended, one job
\* completed and the other failed on its output write, and the permit is back.
C16_Witness ==
    \E b \in DOMAIN sem : \E j, k \in JobsOf(b) :
        /\ batches[b].concurrency = 1
        /\ \A x \in JobsOf(b) : Terminal(x) /\ Ended(x)
        /\ j.status = "completed"
        /\ k.status = "failed" /\ jobLog[k.id].write = "failed"
        /\ sem[b] = 1

\* C17: in every reachable state at most one request has been sent to the
\* image service for each job; once a job's call has returned or raised, no
\* further request is sent for it and the outcome stands; and a job whose
\* call failed is failed when its task has ended.
C17_AtMostOneCall ==
    /\ [](\A b \in DOMAIN batches : \A j \in JobsOf(b) :
             j.id \in DOMAIN jobLog =>
                 /\ jobLog[j.id].calls <= 1
                 /\ (jobLog[j.id].call = "failed" /\ Ended(j)) => j.status = "failed"
                 /\ jobLog[j.id].call = "failed" => j.status \in {"processing", "failed"})
    /\ [][\A j \in DOMAIN jobLog :
             jobLog[j].call # "none" =>
                 /\ jobLog'[j].calls = jobLog[j].calls
                 /\ jobLog'[j].call = jobLog[j].call]_vars

\* C17 witness: a job failed on an empty result list after its one request,
\* its task has ended, and its sibling has made a request of its own since.
C17_Witness ==
    \E b \in DOMAIN batches : \E j, k \in JobsOf(b) :
        /\ Ended(j) /\ j.status = "failed"
        /\ j.error = "Image edit response did not include image data."
        /\ jobLog[j.id].calls = 1
        /\ k.id # j.id /\ k.id \in DOMAIN jobLog /\ jobLog[k.id].calls = 1
        /\ batches[b].concurrency = 1

\* C18: every rename step of a rename targets a name that is free.  The
\* temporary name of a phase-1 step is no entry of the directory, none of the
\* temporary names given before and none of the planned final names; the
\* target <base>_<k>.png of a phase-2 step is no entry of the directory when
\* the step is taken; and every step leaves the number of entries as it was.
C18_StepsTargetFreeNames ==
    [][/\ (renTask = "phase1" /\ dir' # dir) =>
             LET target == temp_paths'[Len(temp_paths')]
             IN  /\ Len(temp_paths') = Len(temp_paths) + 1
                 /\ target \notin DOMAIN dir
                 /\ target \in DOMAIN dir'
                 /\ \A k \in 1..Len(temp_paths) : temp_paths[k] # target
                 /\ \A k \in 1..Len(png_files) :
                       PlannedName(validated_base, k) # target
       /\ (renTask = "phase2" /\ dir' # dir) =>
             LET target == PlannedName(validated_base, Len(renamed) + 1)
             IN  /\ renamed'[Len(renamed) + 1].new_name = target
                 /\ target \notin DOMAIN dir
                 /\ target \in DOMAIN dir'
       /\ Cardinality(DOMAIN dir') = Cardinality(DOMAIN dir)]_vars

\* C18 witness: phase 2 has given the first file a final name that was the
\* name of another of the files when the rename began, and goes on.
C18_Witness ==
    /\ renTask = "phase2"
    /\ Len(renamed) >= 1
    /\ renamed[1].new_name \in PngFiles(before)
    /\ renamed[1].old_name # renamed[1].new_name
    /\ renamed[1].new_name \in DOMAIN dir

RunningStatuses == {"running", "completed", "completed_with_errors"}
FinalStatuses == {"completed", "completed_with_errors"}

\* C19: no step moves a batch's stored status backwards: from running it
\* does not go back to queued, and from completed or completed_with_errors it
\* does not change.
C19_StatusNeverGoesBack ==
    [][\A b \in DOMAIN batches :
          /\ batches[b].status \in RunningStatuses => batches'[b].status \in RunningStatuses
          /\ batches[b].status \in FinalStatuses => batches'[b].status = batches[b].status]_vars

\* C20: in every reachable state, a job has an output_path exactly when it is
\* completed, a completed job has no error, and a job has an error (a string,
\* not None) exactly when it is failed.
C20_ResultFieldsMatchStatus ==
    \A b \in DOMAIN batches : \A j \in JobsOf(b) :
        /\ j.output_path # None <=> j.status = "completed"
        /\ j.status = "completed" => j.error = None
        /\ j.error # None <=> j.status = "failed"

\* C20 witness: of two jobs one is completed, with an output_path and no
\* error, and the other, whose call succeeded and whose write failed, is
\* failed, with an error and no output_path.
C20_Witness ==
    \E b \in DOMAIN batches : \E j, k \in JobsOf(b) :
        /\ j.status = "completed" /\ j.output_path # None /\ j.error = None
        /\ k.status = "failed" /\ k.error # None /\ k.output_path = None
        /\ jobLog[k.id].call = "ok" /\ jobLog[k.id].write = "failed"
====
